---- MODULE Spec2Model ----
(***************************************************************************)
(* Model of the organisation crawler: src/src/index.ts (main,              *)
(* scrapeOrganisation, manifest extraction, mergeDependenciesLists) and     *)
(* the registry resolvers of packageAPI (getDependenciesNpm,                *)
(* getDependenciesPyPI).  One action per continuation of the async code:    *)
(* everything the code runs between two suspension points is one step.      *)
(***************************************************************************)
EXTENDS Integers, Sequences, FiniteSets, TLC

\* ------------------------------------------------------------------ bounds
MaxPages == 2          \* pages the upstream organisation listing may have
MaxPageLen == 7        \* cursors (repositories) on the first page
MaxRequests == 3       \* page requests the pager may issue in one run
MaxRefills == 1        \* refills of one token bucket observed in one run

\* ------------------------------------------------------- program constants
MINIMUM_GITHUB_POINTS == 10
numOfPages == 3
BucketCapacity == 1000
NpmInitialTokens == 250
PypiInitialTokens == 1

NullCursor == 0        \* the null continuation token / null anchor
Managers == {"NPM", "PYPI"}

\* Values of rateLimit.remaining the upstream may report: below, at and
\* above the minimum.
QuotaValues == {MINIMUM_GITHUB_POINTS - 1, MINIMUM_GITHUB_POINTS,
                MINIMUM_GITHUB_POINTS + 1}

\* Tokens one refill may add (elapsed time * rate), up to a full bucket.
RefillAmounts == {1, BucketCapacity}

VARIABLES
    pageLens,             \* upstream: number of repositories on each page
    pc,                   \* position of main()
    failure,              \* why main() rejected ("none" while it has not)
    pagePending,          \* number of page requests awaiting their response
    pageRequests,         \* continuation tokens sent, one per page request
    pageResponses,        \* pages received, in order
    repoCursors,          \* scrapeOrganisation.repoCursors
    repoCursor,           \* scrapeOrganisation.repoCursor
    hasNextPage,          \* scrapeOrganisation.hasNextPage
    batchAnchors,         \* anchor sent with each queryDependencies request
    batchState,           \* per request: "pending", "fulfilled", "rejected"
    successfullResponses, \* scrapeOrganisation.successfullResponses
    failedResponses,      \* scrapeOrganisation.failedResponses
    allDeps,              \* manager -> Repository entries, in build order
    packageDeps,          \* manager -> distinct package names
    tokensAvailable,      \* per bucket
    pendingWaiters,       \* per bucket: names blocked in waitForTokens
    refills,              \* per bucket: refills so far
    tokensGranted,        \* per bucket: tokens handed out so far
    tokensAdded,          \* per bucket: tokens added by refills so far
    acquisitions,         \* manager -> name -> waitForTokens(1) calls
    lookups,              \* manager -> name -> upstream lookups issued
    lookupState,          \* manager -> name -> state of the per-name task
    depMap,               \* manager -> "none" | "skipped" | name set resolved
    output                \* "none" or the document written

VARIABLES
    cmpA, cmpB,           \* greaterThanPythonPackageVersion: the arguments
    cmpResult,            \* ... and its results on them, once called
    releases,             \* queryDependencyPyPI: keys of data.releases, in
                          \* enumeration order
    relIndex,             \* index of the next release of the for-in loop
    selState,             \* "idle", "looping", "returned" or "threw"
    bestVersion,          \* queryDependencyPyPI.bestVersion
    bestVersionObject,    \* queryDependencyPyPI.bestVersionObject
    parsedFrom,           \* the release string parsed last
    parsedLast            \* the version parsed from it

vars == <<pageLens, pc, failure, pagePending, pageRequests, pageResponses,
          repoCursors, repoCursor, hasNextPage, batchAnchors, batchState,
          successfullResponses, failedResponses, allDeps, packageDeps,
          tokensAvailable, pendingWaiters, refills, tokensGranted,
          tokensAdded, acquisitions, lookups, lookupState, depMap, output,
          cmpA, cmpB, cmpResult, releases, relIndex, selState, bestVersion,
          bestVersionObject, parsedFrom, parsedLast>>

\* The state of one run of main().
runVars == <<pageLens, pc, failure, pagePending, pageRequests, pageResponses,
             repoCursors, repoCursor, hasNextPage, batchAnchors, batchState,
             successfullResponses, failedResponses, allDeps, packageDeps,
             tokensAvailable, pendingWaiters, refills, tokensGranted,
             tokensAdded, acquisitions, lookups, lookupState, depMap, output>>

\* The state of the version comparator and of the PyPI best-version loop.
versionVars == <<cmpA, cmpB, cmpResult, releases, relIndex, selState,
                 bestVersion, bestVersionObject, parsedFrom, parsedLast>>

pagerVars == <<pagePending, pageRequests, pageResponses, repoCursors,
               repoCursor, hasNextPage>>
batchVars == <<batchAnchors, batchState, successfullResponses,
               failedResponses>>
bucketVars == <<tokensAvailable, pendingWaiters, refills, tokensGranted,
                tokensAdded>>
resolveVars == <<acquisitions, lookups, lookupState, depMap>>

\* ------------------------------------------------------------ sequences
RECURSIVE SumSeq(_)
SumSeq(s) == IF s = <<>> THEN 0 ELSE Head(s) + SumSeq(Tail(s))

RECURSIVE Concat(_)
Concat(ss) == IF ss = <<>> THEN <<>> ELSE Head(ss) \o Concat(Tail(ss))

Range(s) == {s[i] : i \in DOMAIN s}

Min(a, b) == IF a < b THEN a ELSE b

\* Occurrences of x in s.
Count(s, x) == Cardinality({i \in DOMAIN s : s[i] = x})

\* ----------------------------------------------- upstream paging source
\* The organisation listing: page p holds the cursors that follow the
\* cursors of pages 1..p-1; a cursor is the ordinal of its repository.
PageOffset(p) == SumSeq(SubSeq(pageLens, 1, p - 1))

PageCursors(p) == [i \in 1..pageLens[p] |-> PageOffset(p) + i]

\* The page a continuation token addresses: null addresses page 1, the
\* endCursor of page p addresses page p + 1.
PageOfToken(t) ==
    IF t = NullCursor THEN 1
    ELSE CHOOSE p \in 1..Len(pageLens) : PageOffset(p) = t

\* The response to queryRepositories(org, t) reporting quota q.
PageResponse(t, q) ==
    LET p == PageOfToken(t)
        cs == PageCursors(p)
    IN  [page |-> p,
         cursors |-> cs,
         hasNextPage |-> p < Len(pageLens),
         endCursor |-> IF cs = <<>> THEN NullCursor ELSE cs[Len(cs)],
         remaining |-> q]

\* Organisations the model runs against: one page of 0..MaxPageLen
\* repositories, or several pages of which the later ones hold one or two.
Sources ==
    { <<n>> : n \in 0..MaxPageLen } \cup
    { <<n>> \o t : n \in 1..2,
                   t \in UNION { [1..k -> 1..2] : k \in 1..(MaxPages - 1) } }

\* ------------------------------------------- upstream dependency graph
\* File names are paths split into segments.
File(path, deps) == [filename |-> path, deps |-> deps]

\* The repositories of the organisation, by ordinal: whether the node has a
\* default branch reference, and the manifests attached to it.
RepoCatalogue == <<
    [hasRef |-> TRUE,
     files |-> << File(<<"package.json">>, <<"a", "b">>),
                  File(<<"requirements.txt">>, <<"x">>) >>],
    [hasRef |-> FALSE,
     files |-> << File(<<"package.json">>, <<"c">>) >>],
    [hasRef |-> TRUE,
     files |-> << File(<<"package.json">>, <<"a">>),
                  File(<<"sub", "package.json">>, <<>>) >>],
    [hasRef |-> TRUE,
     files |-> << File(<<"requirements.txt">>, <<"x", "y">>) >>],
    [hasRef |-> TRUE,
     files |-> << File(<<"README.md">>, <<"z">>) >>],
    [hasRef |-> TRUE,
     files |-> << File(<<"package.json">>, <<"c", "a", "c">>) >>],
    [hasRef |-> TRUE,
     files |-> << File(<<"requirements.txt">>, <<"y">>),
                  File(<<"package.json">>, <<"b">>) >> ] >>

Names == {"a", "b", "c", "x", "y", "z"}

RepoNode(i) == RepoCatalogue[((i - 1) % Len(RepoCatalogue)) + 1]

TotalRepos == SumSeq(pageLens)

\* The response to queryDependencies(org, count, anchor): up to count
\* repositories starting at the anchor (at the start of the list for null).
DependencyResponse(count, anchor) ==
    LET first == IF anchor = NullCursor THEN 1 ELSE anchor
        last == Min(first + count - 1, TotalRepos)
    IN  [anchor |-> anchor,
         edges |-> [k \in 1..(IF last < first THEN 0 ELSE last - first + 1)
                       |-> first + k - 1]]

\* ------------------------------------------------- manifest extraction
packageManagers == [NPM |-> {<<"package.json">>},
                    PYPI |-> {<<"requirements.txt">>}]

\* subPath.endsWith(ext)
EndsWith(path, ext) ==
    /\ Len(path) >= Len(ext)
    /\ SubSeq(path, Len(path) - Len(ext) + 1, Len(path)) = ext

RECURSIVE Dedup(_)
\* Keys of a Map / members of a Set filled in the order of s.
Dedup(s) ==
    IF s = <<>> THEN <<>>
    ELSE LET d == Dedup(SubSeq(s, 1, Len(s) - 1))
             x == s[Len(s)]
         IN  IF x \in Range(d) THEN d ELSE Append(d, x)

\* Repositories of a response that have a branch reference, in edge order.
getRepos(response) ==
    SelectSeq(response.edges, LAMBDA i : RepoNode(i).hasRef)

\* packageMap of one repository: per manager, the matching manifests in
\* file order (a manifest without dependencies is kept).
getRepoDependencies(i) ==
    [m \in Managers |->
        SelectSeq(RepoNode(i).files,
                  LAMBDA f : \E ext \in packageManagers[m] :
                                 EndsWith(f.filename, ext))]

getAllRepoDeps(repoList) ==
    SelectSeq(repoList,
              LAMBDA i : \E m \in Managers : getRepoDependencies(i)[m] # <<>>)

\* The Repository entries one response contributes under manager m.
ResponseEntries(response, m) ==
    LET repoList == getAllRepoDeps(getRepos(response))
    IN  Concat([k \in 1..Len(repoList) |->
            LET depList == getRepoDependencies(repoList[k])[m]
            IN  [j \in 1..Len(depList) |->
                    [repo |-> repoList[k],
                     subPath |-> depList[j].filename,
                     dependencies |-> Dedup(depList[j].deps)]]])

\* allDeps as built by the loop over the responses, in the order given.
BuildAllDeps(responses) ==
    [m \in Managers |->
        Concat([k \in 1..Len(responses) |-> ResponseEntries(responses[k], m)])]

\* Variant: names collected in a list instead of a set.
mergeDependenciesListsNoSet(managerRepos) ==
    [m \in Managers |->
        Concat([k \in 1..Len(managerRepos[m]) |->
                   managerRepos[m][k].dependencies])]

\* Distinct package names per manager; a manager without any name has no key
\* (the empty sequence here).
mergeDependenciesLists(managerRepos) ==
    [m \in Managers |->
        Dedup(Concat([k \in 1..Len(managerRepos[m]) |->
                         managerRepos[m][k].dependencies]))]

\* ------------------------------------------------- PyPI version strings
\* A string is the sequence of its characters.  NaN is the result of
\* parseInt on text that does not start with a digit.
NaN == 0 - 1

Digits == <<"0", "1", "2", "3", "4", "5", "6", "7", "8", "9">>

IsDigit(c) == c \in Range(Digits)

DigitValue(c) == (CHOOSE i \in DOMAIN Digits : Digits[i] = c) - 1

\* x > y and x != y on JavaScript numbers.
NumGreater(x, y) == x # NaN /\ y # NaN /\ x > y
NumDiffers(x, y) == x = NaN \/ y = NaN \/ x # y

\* parseInt(s): the value of the leading digits of s, NaN when there is none.
parseInt(s) ==
    LET n == IF \E i \in DOMAIN s : ~IsDigit(s[i])
             THEN (CHOOSE i \in DOMAIN s :
                       ~IsDigit(s[i]) /\ \A j \in 1..(i - 1) : IsDigit(s[j])) - 1
             ELSE Len(s)
        RECURSIVE Value(_)
        Value(k) == IF k = 0 THEN 0 ELSE 10 * Value(k - 1) + DigitValue(s[k])
    IN  IF n = 0 THEN NaN ELSE Value(n)

\* s.indexOf(pat) counted from 1, 0 when pat does not occur in s.
IndexOf(s, pat) ==
    LET hits == {i \in 1..(Len(s) - Len(pat) + 1) :
                    SubSeq(s, i, i + Len(pat) - 1) = pat}
    IN  IF hits = {} THEN 0
        ELSE CHOOSE i \in hits : \A j \in hits : i <= j

\* s.split(sep, 2).length == 2
SplitsInTwo(s, sep) == IndexOf(s, sep) # 0

\* s.split(sep, 2)[0]
BeforeFirst(s, sep) ==
    IF IndexOf(s, sep) = 0 THEN s ELSE SubSeq(s, 1, IndexOf(s, sep) - 1)

\* s.substring(0, Len(prefix)) === prefix
StartsWith(s, prefix) ==
    Len(s) >= Len(prefix) /\ SubSeq(s, 1, Len(prefix)) = prefix

\* s.substring(n)
DropFirst(s, n) == SubSeq(s, n + 1, Len(s))

RECURSIVE Split(_, _)
\* s.split(sep) for a one-character separator.
Split(s, sep) ==
    IF IndexOf(s, sep) = 0 THEN <<s>>
    ELSE <<BeforeFirst(s, sep)>> \o Split(DropFirst(s, IndexOf(s, sep)), sep)

\* One iteration of the loop over parts.slice(1): the number pushed to
\* version.rest and whether the part marks a prerelease.
ParsePart(part) ==
    IF StartsWith(part, <<"d", "e", "v">>)
    THEN [value |-> parseInt(DropFirst(part, 3)), prerelease |-> TRUE]
    ELSE IF StartsWith(part, <<"p", "o", "s", "t">>)
    THEN [value |-> parseInt(DropFirst(part, 4)), prerelease |-> FALSE]
    ELSE IF SplitsInTwo(part, <<"a">>)
    THEN [value |-> parseInt(BeforeFirst(part, <<"a">>)), prerelease |-> TRUE]
    ELSE IF SplitsInTwo(part, <<"b">>)
    THEN [value |-> parseInt(BeforeFirst(part, <<"b">>)), prerelease |-> TRUE]
    ELSE IF SplitsInTwo(part, <<"r", "c">>)
    THEN [value |-> parseInt(BeforeFirst(part, <<"r", "c">>)),
          prerelease |-> TRUE]
    ELSE [value |-> parseInt(part), prerelease |-> FALSE]

\* The text parsePythonPackageVersion splits on "." : the string itself, or
\* for a string with an epoch separator versionString[1], its second
\* character.
VersionText(s) ==
    IF SplitsInTwo(s, <<"!">>) THEN <<s[2]>> ELSE s

\* versionString[1] is undefined and versionString.split throws.
ParseThrows(s) == SplitsInTwo(s, <<"!">>) /\ Len(s) < 2

parsePythonPackageVersion(s) ==
    LET parts == Split(VersionText(s), <<".">>)
        later == [i \in 1..(Len(parts) - 1) |-> ParsePart(parts[i + 1])]
    IN  [epoch |-> IF SplitsInTwo(s, <<"!">>)
                   THEN parseInt(BeforeFirst(s, <<"!">>)) ELSE 0,
         first |-> parseInt(parts[1]),
         rest |-> [i \in DOMAIN later |-> later[i].value],
         isPrerelease |-> \E i \in DOMAIN later : later[i].prerelease]

\* Variant: the prerelease flags are not looked at.
greaterThanNumbersOnly(a, b) ==
    IF NumGreater(a.first, b.first) THEN TRUE
    ELSE LET differ == {i \in 1..Min(Len(a.rest), Len(b.rest)) :
                           NumDiffers(a.rest[i], b.rest[i])}
         IN  IF differ # {}
             THEN LET i == CHOOSE k \in differ : \A j \in differ : k <= j
                  IN  NumGreater(a.rest[i], b.rest[i])
             ELSE Len(a.rest) > Len(b.rest)

greaterThanPythonPackageVersion(a, b) ==
    IF a.isPrerelease /\ ~b.isPrerelease THEN FALSE
    ELSE IF ~a.isPrerelease /\ b.isPrerelease THEN TRUE
    ELSE IF NumGreater(a.first, b.first) THEN TRUE
    ELSE LET differ == {i \in 1..Min(Len(a.rest), Len(b.rest)) :
                           NumDiffers(a.rest[i], b.rest[i])}
         IN  IF differ # {}
             THEN LET i == CHOOSE k \in differ : \A j \in differ : k <= j
                  IN  NumGreater(a.rest[i], b.rest[i])
             ELSE Len(a.rest) > Len(b.rest)

\* bestVersion and bestVersionObject before the loop.
SentinelString == <<"0">>
SentinelVersion == [epoch |-> 0, first |-> 0, rest |-> <<>>,
                    isPrerelease |-> TRUE]

\* ---------------------------------------------------- version inputs
MaxComponents == 2     \* components after the major number of a version
MaxReleases == 3       \* releases of one package

\* Numbers a parsed version may hold.
Numbers == {NaN, 0, 1, 2}

ParsedVersions ==
    [epoch : {0},
     first : Numbers,
     rest : UNION {[1..k -> Numbers] : k \in 0..MaxComponents},
     isPrerelease : BOOLEAN]

\* Release strings PyPI may list for a package.
ReleaseCatalogue ==
    {
      <<"1", ".", "0", ".", "0">>,   \* 1.0.0
      <<"1", ".", "1", ".", "0", "a", "1">>,   \* 1.1.0a1
      <<"2", ".", "0", ".", "0", ".", "d", "e", "v", "1">>,   \* 2.0.0.dev1
      <<"1", ".", "2", ".", "0">>,   \* 1.2.0
      <<"1", ".", "1", ".", "9">>,   \* 1.1.9
      <<"2", ".", "0", ".", "0", "r", "c", "1">>,   \* 2.0.0rc1
      <<"2", ".", "0", ".", "0">>,   \* 2.0.0
      <<"1", ".", "0">>,   \* 1.0
      <<"1", ".", "9">>,   \* 1.9
      <<"2", ".", "0">>,   \* 2.0
      <<"1", ".", "0", "b", "2">>,   \* 1.0b2
      <<"1", ".", "0", ".", "p", "o", "s", "t", "1">>,   \* 1.0.post1
      <<"a", "b", "c">>,   \* abc
      <<"1", ".", "x">>,   \* 1.x
      <<"1", "!", "2", ".", "0">>,   \* 1!2.0
      <<"!">>    \* !
    }

\* The keys of data.releases, in any enumeration order.
ReleaseOrders ==
    UNION {{r \in [1..k -> ReleaseCatalogue] :
               \A i, j \in 1..k : i # j => r[i] # r[j]} : k \in 0..MaxReleases}

NoResult == [called |-> FALSE, ab |-> FALSE, ba |-> FALSE, aa |-> FALSE]

\* Nothing is being compared or selected.
VersionIdle ==
    /\ cmpA = SentinelVersion
    /\ cmpB = SentinelVersion
    /\ cmpResult = NoResult
    /\ releases = <<>>
    /\ relIndex = 0
    /\ selState = "idle"
    /\ bestVersion = SentinelString
    /\ bestVersionObject = SentinelVersion
    /\ parsedFrom = <<>>
    /\ parsedLast = SentinelVersion

\* ------------------------------------------------------------ the run
\* Variant: capacity and initial tokens passed in each other's place.
RateLimiterInitSwapped ==
    [NPM |-> [capacity |-> NpmInitialTokens, tokens |-> BucketCapacity],
     PYPI |-> [capacity |-> PypiInitialTokens, tokens |-> BucketCapacity]]

\* The two buckets main() constructs: (capacity, initial tokens).
RateLimiterInit ==
    [NPM |-> [capacity |-> BucketCapacity, tokens |-> NpmInitialTokens],
     PYPI |-> [capacity |-> BucketCapacity, tokens |-> PypiInitialTokens]]

\* waitForShorterQueue(100)
ShorterQueueLimit == 100

\* npmDepDataMap / pypiDepDataMap before assignment, and when null.
NoDepMap == [state |-> "none", keys |-> {}]
NullDepMap == [state |-> "null", keys |-> {}]

\* No document has been written.
NoOutput == [written |-> FALSE, npm |-> <<>>, PyPI |-> <<>>]

\* The run before main() is called.
RunInit ==
    /\ pageLens \in Sources
    /\ pc = "start"
    /\ failure = "none"
    /\ pagePending = 0
    /\ pageRequests = <<>>
    /\ pageResponses = <<>>
    /\ repoCursors = <<>>
    /\ repoCursor = NullCursor
    /\ hasNextPage = FALSE
    /\ batchAnchors = <<>>
    /\ batchState = <<>>
    /\ successfullResponses = <<>>
    /\ failedResponses = <<>>
    /\ allDeps = [m \in Managers |-> <<>>]
    /\ packageDeps = [m \in Managers |-> <<>>]
    /\ tokensAvailable = [m \in Managers |-> RateLimiterInit[m].tokens]
    /\ pendingWaiters = [m \in Managers |-> <<>>]
    /\ refills = [m \in Managers |-> 0]
    /\ tokensGranted = [m \in Managers |-> 0]
    /\ tokensAdded = [m \in Managers |-> 0]
    /\ acquisitions = [m \in Managers |-> [n \in Names |-> 0]]
    /\ lookups = [m \in Managers |-> [n \in Names |-> 0]]
    /\ lookupState = [m \in Managers |-> [n \in Names |-> "idle"]]
    /\ depMap = [m \in Managers |-> NoDepMap]
    /\ output = NoOutput

Init == RunInit /\ VersionIdle

\* The continuation token scrapeOrganisation passes to queryRepositories
\* when its repoCursor variable holds rc.
PageToken(rc) == NullCursor

\* Variant: a quota equal to the minimum also aborts.
QuotaTooLowInclusive(remaining) == remaining <= MINIMUM_GITHUB_POINTS

\* remaining < MINIMUM_GITHUB_POINTS
QuotaTooLow(remaining) == remaining < MINIMUM_GITHUB_POINTS

\* Variant: the first cursor is left as retrieved.
OverwriteFirstKept(cursors) == cursors

\* repoCursors[0] = null (on an empty array this creates the element).
OverwriteFirst(cursors) ==
    IF cursors = <<>> THEN <<NullCursor>>
    ELSE [cursors EXCEPT ![1] = NullCursor]

\* Variant: the loop bound rounded down.
GroupCountFloor(length) == length \div numOfPages

\* Number of iterations of
\* for (curCursor = 0; curCursor < length; curCursor += numOfPages).
GroupCount(length) == (length + numOfPages - 1) \div numOfPages

\* Index into repoCursors (from 1) of the anchor of group g (from 1).
AnchorIndex(g) == (g - 1) * numOfPages + 1

\* The anchors of the queryDependencies requests the loop issues.
BatchAnchors(cursors) ==
    [g \in 1..GroupCount(Len(cursors)) |-> cursors[AnchorIndex(g)]]

\* main() up to the first await: the first page request is sent.
Main ==
    /\ pc = "start"
    /\ pc' = "paging"
    /\ pageRequests' = <<PageToken(repoCursor)>>
    /\ pagePending' = 1
    /\ UNCHANGED <<versionVars, pageLens, failure, pageResponses, repoCursors, repoCursor,
                   hasNextPage, batchVars, allDeps, packageDeps, bucketVars,
                   resolveVars, output>>

\* A page arrives reporting quota q: the body of the do-while after the
\* await, then either the throw, the next page request, or the code after
\* the loop up to await Promise.all(allPromises).
PageFulfil(q) ==
    /\ pc = "paging"
    /\ pagePending = 1
    /\ LET response == PageResponse(pageRequests[Len(pageRequests)], q)
           collected == repoCursors \o response.cursors
           nextCursor == IF response.hasNextPage THEN response.endCursor
                         ELSE repoCursor
       IN  /\ pageResponses' = Append(pageResponses, response)
           /\ hasNextPage' = response.hasNextPage
           /\ repoCursor' = IF QuotaTooLow(response.remaining)
                               \/ response.hasNextPage
                            THEN nextCursor ELSE NullCursor
           /\ IF QuotaTooLow(response.remaining)
              THEN /\ pc' = "failed"
                   /\ failure' = "quota"
                   /\ pagePending' = 0
                   /\ repoCursors' = collected
                   /\ UNCHANGED <<pageRequests, batchAnchors, batchState>>
              ELSE IF response.hasNextPage
              THEN /\ Len(pageRequests) < MaxRequests
                   /\ pageRequests' = Append(pageRequests,
                                             PageToken(nextCursor))
                   /\ pagePending' = 1
                   /\ repoCursors' = collected
                   /\ UNCHANGED <<pc, failure, batchAnchors, batchState>>
              ELSE /\ pc' = "batching"
                   /\ pagePending' = 0
                   /\ repoCursors' = OverwriteFirst(collected)
                   /\ batchAnchors' = BatchAnchors(repoCursors')
                   /\ batchState' = [g \in DOMAIN batchAnchors' |-> "pending"]
                   /\ UNCHANGED <<pageRequests, failure>>
    /\ UNCHANGED <<versionVars, pageLens, successfullResponses, failedResponses, allDeps,
                   packageDeps, bucketVars, resolveVars, output>>

\* The page request rejects: the await throws out of scrapeOrganisation and
\* main.
PageReject ==
    /\ pc = "paging"
    /\ pagePending = 1
    /\ pc' = "failed"
    /\ failure' = "pageError"
    /\ pagePending' = 0
    /\ UNCHANGED <<versionVars, pageLens, pageRequests, pageResponses, repoCursors,
                   repoCursor, hasNextPage, batchVars, allDeps, packageDeps,
                   bucketVars, resolveVars, output>>

\* .then((r) => successfullResponses.push(r)) of request g
BatchFulfil(g) ==
    /\ pc = "batching"
    /\ g \in DOMAIN batchState
    /\ batchState[g] = "pending"
    /\ batchState' = [batchState EXCEPT ![g] = "fulfilled"]
    /\ successfullResponses' =
           Append(successfullResponses,
                  DependencyResponse(numOfPages, batchAnchors[g]))
    /\ UNCHANGED <<versionVars, pageLens, pc, failure, pagerVars, batchAnchors,
                   failedResponses, allDeps, packageDeps, bucketVars,
                   resolveVars, output>>

\* Variant: a rejected request is not caught and rejects the join.
BatchRejectAborts(g) ==
    /\ pc = "batching"
    /\ g \in DOMAIN batchState
    /\ batchState[g] = "pending"
    /\ batchState' = [batchState EXCEPT ![g] = "rejected"]
    /\ pc' = "failed"
    /\ failure' = "batch"
    /\ UNCHANGED <<versionVars, pageLens, pagerVars, batchAnchors, failedResponses,
                   successfullResponses, allDeps, packageDeps, bucketVars,
                   resolveVars, output>>

\* .catch(e => failedResponses.push(repoCursors[curCursorCopy])) of request g
BatchReject(g) ==
    /\ pc = "batching"
    /\ g \in DOMAIN batchState
    /\ batchState[g] = "pending"
    /\ batchState' = [batchState EXCEPT ![g] = "rejected"]
    /\ failedResponses' = Append(failedResponses, repoCursors[AnchorIndex(g)])
    /\ UNCHANGED <<versionVars, pageLens, pc, failure, pagerVars, batchAnchors,
                   successfullResponses, allDeps, packageDeps, bucketVars,
                   resolveVars, output>>

\* ------------------------------------------------------- token bucket
\* Tokens after a refill of d, capped at the capacity.
RefilledTokens(m, tokens, d) == Min(RateLimiterInit[m].capacity, tokens + d)

\* A waiter asking for n tokens can be served.
CanGrant(tokens, n) == tokens >= n

\* Elapsed time adds d tokens to bucket m; observed while callers wait.
Refill(m, d) ==
    /\ pendingWaiters[m] # <<>>
    /\ refills[m] < MaxRefills
    /\ refills' = [refills EXCEPT ![m] = @ + 1]
    /\ tokensAvailable' =
           [tokensAvailable EXCEPT ![m] = RefilledTokens(m, @, d)]
    /\ tokensAdded' =
           [tokensAdded EXCEPT ![m] = @ + tokensAvailable'[m]
                                        - tokensAvailable[m]]
    /\ UNCHANGED <<versionVars, pageLens, pc, failure, pagerVars, batchVars, allDeps,
                   packageDeps, pendingWaiters, tokensGranted, resolveVars,
                   output>>

\* Variant: the caller that asked last is served first.
GrantNewest(m) ==
    /\ pendingWaiters[m] # <<>>
    /\ CanGrant(tokensAvailable[m], 1)
    /\ tokensAvailable' = [tokensAvailable EXCEPT ![m] = @ - 1]
    /\ tokensGranted' = [tokensGranted EXCEPT ![m] = @ + 1]
    /\ pendingWaiters' =
           [pendingWaiters EXCEPT ![m] = SubSeq(@, 1, Len(@) - 1)]
    /\ lookupState' =
           [lookupState EXCEPT
               ![m][pendingWaiters[m][Len(pendingWaiters[m])]] = "granted"]
    /\ UNCHANGED <<versionVars, pageLens, pc, failure, pagerVars, batchVars, allDeps,
                   packageDeps, refills, tokensAdded, acquisitions, lookups,
                   depMap, output>>

\* waitForTokens(1) of the longest-waiting caller returns: one token is
\* deducted and the caller leaves the queue.
Grant(m) ==
    /\ pendingWaiters[m] # <<>>
    /\ CanGrant(tokensAvailable[m], 1)
    /\ tokensAvailable' = [tokensAvailable EXCEPT ![m] = @ - 1]
    /\ tokensGranted' = [tokensGranted EXCEPT ![m] = @ + 1]
    /\ pendingWaiters' = [pendingWaiters EXCEPT ![m] = Tail(@)]
    /\ lookupState' =
           [lookupState EXCEPT ![m][Head(pendingWaiters[m])] = "granted"]
    /\ UNCHANGED <<versionVars, pageLens, pc, failure, pagerVars, batchVars, allDeps,
                   packageDeps, refills, tokensAdded, acquisitions, lookups,
                   depMap, output>>

\* --------------------------------------------------- registry resolvers
\* Variant: a join that waits for every task to settle and never rejects.
JoinOutcomeAllSettled(states) ==
    IF \A i \in DOMAIN states : states[i] \in {"fulfilled", "rejected"}
    THEN "fulfilled" ELSE "pending"

\* Variant: a join that fulfils with the first task that fulfils.
JoinOutcomeAny(states) ==
    IF \E i \in DOMAIN states : states[i] = "rejected" THEN "rejected"
    ELSE IF states = <<>> \/ \E i \in DOMAIN states : states[i] = "fulfilled"
    THEN "fulfilled"
    ELSE "pending"

\* Promise.all over the per-name tasks, given their states.
JoinOutcome(states) ==
    IF \E i \in DOMAIN states : states[i] = "rejected" THEN "rejected"
    ELSE IF \A i \in DOMAIN states : states[i] = "fulfilled" THEN "fulfilled"
    ELSE "pending"

TaskStates(m, ls) == [k \in 1..Len(packageDeps[m]) |-> ls[m][packageDeps[m][k]]]

\* The part of main() each manager's resolver is awaited in.
StageOf(m) == IF m = "NPM" THEN "npm" ELSE "pypi"

\* depMap filled from depList: one entry per result.
BuildDepMap(m) ==
    [state |-> "map",
     keys |-> {packageDeps[m][k] : k \in
                  {j \in 1..Len(packageDeps[m]) :
                      lookupState[m][packageDeps[m][j]] = "fulfilled"}}]


\* After waitForTokens(1) returned, the task of name n sends its lookup.
IssueLookup(m, n) ==
    /\ lookupState[m][n] = "granted"
    /\ lookupState' = [lookupState EXCEPT ![m][n] = "inflight"]
    /\ lookups' = [lookups EXCEPT ![m][n] = @ + 1]
    /\ UNCHANGED <<versionVars, pageLens, pc, failure, pagerVars, batchVars, allDeps,
                   packageDeps, bucketVars, acquisitions, depMap, output>>

\* The lookup of name n returns and its task fulfils.
LookupFulfil(m, n) ==
    /\ lookupState[m][n] = "inflight"
    /\ lookupState' = [lookupState EXCEPT ![m][n] = "fulfilled"]
    /\ UNCHANGED <<versionVars, pageLens, pc, failure, pagerVars, batchVars, allDeps,
                   packageDeps, bucketVars, acquisitions, lookups, depMap,
                   output>>

\* The lookup of name n rejects; if main() is awaiting this manager's join,
\* the join rejects and main() throws.
LookupReject(m, n) ==
    /\ lookupState[m][n] = "inflight"
    /\ lookupState' = [lookupState EXCEPT ![m][n] = "rejected"]
    /\ IF pc = StageOf(m) /\ JoinOutcome(TaskStates(m, lookupState')) = "rejected"
       THEN pc' = "failed" /\ failure' = StageOf(m)
       ELSE UNCHANGED <<pc, failure>>
    /\ UNCHANGED <<versionVars, pageLens, pagerVars, batchVars, allDeps, packageDeps,
                   bucketVars, acquisitions, lookups, depMap, output>>

\* getDependenciesNpm / getDependenciesPyPI up to the await: every name's
\* task starts and calls waitForTokens(1).
StartResolve(m, names) ==
    /\ acquisitions' =
           [acquisitions EXCEPT ![m] =
               [n \in Names |-> @[n] + Count(names, n)]]
    /\ lookupState' =
           [lookupState EXCEPT ![m] =
               [n \in Names |-> IF n \in Range(names) THEN "waiting" ELSE @[n]]]
    /\ pendingWaiters' = [pendingWaiters EXCEPT ![m] = @ \o names]

\* packageDeps.has(m) ? await getDependencies...(packageDeps.get(m)) : null
ResolveOrSkip(m, deps) ==
    IF deps[m] # <<>>
    THEN StartResolve(m, deps[m])
    ELSE UNCHANGED <<acquisitions, lookupState, pendingWaiters>>

\* Promise.all(allPromises) resolves: the extraction loop, the return to
\* main(), mergeDependenciesLists and the start of the npm resolver.
Extract ==
    /\ pc = "batching"
    /\ \A g \in DOMAIN batchState : batchState[g] # "pending"
    /\ allDeps' = BuildAllDeps(successfullResponses)
    /\ packageDeps' = mergeDependenciesLists(allDeps')
    /\ ResolveOrSkip("NPM", packageDeps')
    /\ pc' = "npm"
    /\ UNCHANGED <<versionVars, pageLens, failure, pagerVars, batchVars, tokensAvailable,
                   refills, tokensGranted, tokensAdded, lookups, depMap,
                   output>>

\* The npm join fulfils (or npm was skipped): npmDepDataMap is bound and the
\* PyPI resolver starts.
NpmJoin ==
    /\ pc = "npm"
    /\ JoinOutcome(TaskStates("NPM", lookupState)) = "fulfilled"
    /\ depMap' = [depMap EXCEPT !["NPM"] =
                     IF packageDeps["NPM"] # <<>> THEN BuildDepMap("NPM")
                     ELSE NullDepMap]
    /\ ResolveOrSkip("PYPI", packageDeps)
    /\ pc' = "pypi"
    /\ UNCHANGED <<versionVars, pageLens, failure, pagerVars, batchVars, allDeps,
                   packageDeps, tokensAvailable, refills, tokensGranted,
                   tokensAdded, lookups, output>>

\* Variant: the PyPI resolver is not awaited.
PypiJoinNotAwaited ==
    /\ pc = "pypi"
    /\ depMap' = [depMap EXCEPT !["PYPI"] =
                     IF packageDeps["PYPI"] # <<>> THEN BuildDepMap("PYPI")
                     ELSE NullDepMap]
    /\ pc' = "draining"
    /\ UNCHANGED <<versionVars, pageLens, failure, pagerVars, batchVars, allDeps,
                   packageDeps, bucketVars, acquisitions, lookups,
                   lookupState, output>>

\* The PyPI join fulfils (or PyPI was skipped): main() goes on to
\* waitForShorterQueue.
PypiJoin ==
    /\ pc = "pypi"
    /\ JoinOutcome(TaskStates("PYPI", lookupState)) = "fulfilled"
    /\ depMap' = [depMap EXCEPT !["PYPI"] =
                     IF packageDeps["PYPI"] # <<>> THEN BuildDepMap("PYPI")
                     ELSE NullDepMap]
    /\ pc' = "draining"
    /\ UNCHANGED <<versionVars, pageLens, failure, pagerVars, batchVars, allDeps,
                   packageDeps, bucketVars, acquisitions, lookups,
                   lookupState, output>>

\* generateDependencyTree: every entry in the order given, each declared
\* dependency joined with its resolution (absent when the map has none).
generateDependencyTree(entries, map) ==
    [k \in 1..Len(entries) |->
        [repo |-> entries[k].repo,
         subPath |-> entries[k].subPath,
         dependencies |->
             [j \in 1..Len(entries[k].dependencies) |->
                 <<entries[k].dependencies[j],
                   entries[k].dependencies[j] \in map.keys>>]]]

\* waitForShorterQueue(100) on the npm bucket returns: the document is
\* assembled and written.
WriteOutput ==
    /\ pc = "draining"
    /\ Len(pendingWaiters["NPM"]) <= ShorterQueueLimit
    /\ output' = [written |-> TRUE,
                  npm |-> generateDependencyTree(allDeps["NPM"], depMap["NPM"]),
                  PyPI |-> generateDependencyTree(allDeps["PYPI"],
                                                  depMap["PYPI"])]
    /\ pc' = "written"
    /\ UNCHANGED <<versionVars, pageLens, failure, pagerVars, batchVars, allDeps,
                   packageDeps, bucketVars, resolveVars>>


Next ==
    \/ Main
    \/ \E q \in QuotaValues : PageFulfil(q)
    \/ PageReject
    \/ \E g \in 1..(GroupCount(Len(repoCursors))) : BatchFulfil(g)
    \/ \E g \in 1..(GroupCount(Len(repoCursors))) : BatchReject(g)
    \/ Extract
    \/ \E m \in Managers, d \in RefillAmounts : Refill(m, d)
    \/ \E m \in Managers : Grant(m)
    \/ \E m \in Managers, n \in Names : IssueLookup(m, n)
    \/ \E m \in Managers, n \in Names : LookupFulfil(m, n)
    \/ \E m \in Managers, n \in Names : LookupReject(m, n)
    \/ NpmJoin
    \/ PypiJoin
    \/ WriteOutput

Spec == Init /\ [][Next]_vars

\* ------------------------------------------ the comparator on its own
\* greaterThanPythonPackageVersion applied to every pair of parsed versions,
\* outside any run of main().
CompareInit ==
    /\ RunInit
    /\ pageLens = <<0>>
    /\ cmpA \in ParsedVersions
    /\ cmpB \in ParsedVersions
    /\ cmpResult = NoResult
    /\ releases = <<>>
    /\ relIndex = 0
    /\ selState = "idle"
    /\ bestVersion = SentinelString
    /\ bestVersionObject = SentinelVersion
    /\ parsedFrom = <<>>
    /\ parsedLast = SentinelVersion

Compare ==
    /\ ~cmpResult.called
    /\ cmpResult' = [called |-> TRUE,
                     ab |-> greaterThanPythonPackageVersion(cmpA, cmpB),
                     ba |-> greaterThanPythonPackageVersion(cmpB, cmpA),
                     aa |-> greaterThanPythonPackageVersion(cmpA, cmpA)]
    /\ UNCHANGED <<runVars, cmpA, cmpB, releases, relIndex, selState,
                   bestVersion, bestVersionObject, parsedFrom, parsedLast>>

CompareNext == Compare

CompareSpec == CompareInit /\ [][CompareNext]_vars

\* --------------------------------- the best-version loop on its own
\* The loop of queryDependencyPyPI over the releases of one package, after
\* the token and the response have arrived.
SelectInit ==
    /\ RunInit
    /\ pageLens = <<0>>
    /\ cmpA = SentinelVersion
    /\ cmpB = SentinelVersion
    /\ cmpResult = NoResult
    /\ releases \in ReleaseOrders
    /\ relIndex = 1
    /\ selState = "looping"
    /\ bestVersion = SentinelString
    /\ bestVersionObject = SentinelVersion
    /\ parsedFrom = <<>>
    /\ parsedLast = SentinelVersion

\* One iteration: parse the release, keep it if it is greater than the best.
SelectStep ==
    /\ selState = "looping"
    /\ relIndex <= Len(releases)
    /\ ~ParseThrows(releases[relIndex])
    /\ LET release == releases[relIndex]
           version == parsePythonPackageVersion(release)
       IN  /\ parsedFrom' = release
           /\ parsedLast' = version
           /\ IF greaterThanPythonPackageVersion(version, bestVersionObject)
              THEN /\ bestVersionObject' = version
                   /\ bestVersion' = release
              ELSE UNCHANGED <<bestVersion, bestVersionObject>>
    /\ relIndex' = relIndex + 1
    /\ UNCHANGED <<runVars, cmpA, cmpB, cmpResult, releases, selState>>

\* parsePythonPackageVersion throws and the lookup is rejected.
SelectThrow ==
    /\ selState = "looping"
    /\ relIndex <= Len(releases)
    /\ ParseThrows(releases[relIndex])
    /\ selState' = "threw"
    /\ parsedFrom' = releases[relIndex]
    /\ UNCHANGED <<runVars, cmpA, cmpB, cmpResult, releases, relIndex,
                   bestVersion, bestVersionObject, parsedLast>>

\* return { name: dependency, data: { version: bestVersion } }
SelectReturn ==
    /\ selState = "looping"
    /\ relIndex > Len(releases)
    /\ selState' = "returned"
    /\ UNCHANGED <<runVars, cmpA, cmpB, cmpResult, releases, relIndex,
                   bestVersion, bestVersionObject, parsedFrom, parsedLast>>

SelectNext ==
    \/ SelectStep
    \/ SelectThrow
    \/ SelectReturn

SelectSpec == SelectInit /\ [][SelectNext]_vars

\* The run with the bucket's timers: a waiter that can be served is served,
\* and time keeps refilling a bucket that has waiters.
FairSpec ==
    /\ Spec
    /\ \A m \in Managers :
           /\ WF_vars(Grant(m))
           /\ WF_vars(\E d \in RefillAmounts : Refill(m, d))

\* ================================================================ claims
\* Cursors retrieved by pagination, in retrieval order.
Retrieved == Concat([i \in 1..Len(pageResponses) |-> pageResponses[i].cursors])

\* All cursors of the organisation, page 1 first.
AllCursors == [i \in 1..TotalRepos |-> i]

BatchIssued == batchState # <<>>
AllSettled == BatchIssued /\ \A g \in DOMAIN batchState : batchState[g] # "pending"
Groups(st) == {g \in DOMAIN batchState : batchState[g] = st}

CeilDiv(n, d) == (n + d - 1) \div d

LowQuotaSeen ==
    \E i \in DOMAIN pageResponses :
        pageResponses[i].remaining < MINIMUM_GITHUB_POINTS

\* C1 as stated: ceil(n/3) requests for n retrieved cursors; once all have
\* settled, successes holds the responses of exactly the fulfilled groups and
\* failedGroups the retrieved first cursor of exactly the rejected groups.
C1_AsStated ==
    BatchIssued =>
        /\ Len(batchState) = CeilDiv(Len(Retrieved), numOfPages)
        /\ AllSettled =>
            /\ Len(successfullResponses) = Cardinality(Groups("fulfilled"))
            /\ Range(successfullResponses) =
                   {DependencyResponse(numOfPages, batchAnchors[g]) :
                        g \in Groups("fulfilled")}
            /\ Len(failedResponses) = Cardinality(Groups("rejected"))
            /\ Range(failedResponses) =
                   {Retrieved[AnchorIndex(g)] : g \in Groups("rejected")}

\* The anchor sent with the request of group g: null for the first group,
\* the retrieved cursor at the group's first index for the others.
AnchorSent(g) == IF g = 1 THEN NullCursor ELSE Retrieved[AnchorIndex(g)]

\* C1 amended: for n retrieved cursors exactly ceil(n/3) requests are issued
\* when n >= 1 and exactly one when n = 0, one per contiguous group of 3 and
\* each with its own anchor; once all have settled, successes holds the
\* responses of exactly the fulfilled groups, and failedGroups holds, for
\* exactly the rejected groups, the anchor sent with the request: null for
\* the first group, the group's first retrieved cursor for the others.
C1_BatchFetch ==
    BatchIssued =>
        /\ Len(batchState) =
               IF Retrieved = <<>> THEN 1
               ELSE CeilDiv(Len(Retrieved), numOfPages)
        /\ batchAnchors = [g \in DOMAIN batchState |-> AnchorSent(g)]
        /\ \A g, h \in DOMAIN batchState :
               g # h => batchAnchors[g] # batchAnchors[h]
        /\ AllSettled =>
            /\ Len(successfullResponses) = Cardinality(Groups("fulfilled"))
            /\ Range(successfullResponses) =
                   {DependencyResponse(numOfPages, AnchorSent(g)) :
                        g \in Groups("fulfilled")}
            /\ Len(failedResponses) = Cardinality(Groups("rejected"))
            /\ Range(failedResponses) =
                   {AnchorSent(g) : g \in Groups("rejected")}

\* Seven cursors, three requests, the second rejected and its siblings
\* fulfilled.
C1_Witness ==
    /\ Len(Retrieved) = 7
    /\ batchState = <<"fulfilled", "rejected", "fulfilled">>
    /\ failedResponses = <<4>>

\* The fulfilled responses in group (input traversal) order.
ResponsesInGroupOrder ==
    LET RECURSIVE From(_)
        From(g) ==
            IF g > Len(batchState) THEN <<>>
            ELSE (IF batchState[g] = "fulfilled"
                  THEN <<DependencyResponse(numOfPages, batchAnchors[g])>>
                  ELSE <<>>) \o From(g + 1)
    IN  From(1)

\* scrapeOrganisation has returned allDeps to main().
Scraped ==
    pc \in {"npm", "pypi", "draining", "written"} \/ failure \in {"npm", "pypi"}

\* C2: the Repository entries returned by scrapeOrganisation, and those of
\* the written document, are per package manager in input traversal order
\* (group order, then repository and manifest order within a response),
\* whatever the order the batch requests completed in.
C2_OutputOrder ==
    /\ Scraped => allDeps = BuildAllDeps(ResponsesInGroupOrder)
    /\ output.written =>
        /\ output.npm =
               generateDependencyTree(
                   BuildAllDeps(ResponsesInGroupOrder)["NPM"], depMap["NPM"])
        /\ output.PyPI =
               generateDependencyTree(
                   BuildAllDeps(ResponsesInGroupOrder)["PYPI"], depMap["PYPI"])

\* C3: at most one page request is outstanding, the first carries no
\* continuation token, and every later one carries the endCursor reported by
\* the page just before it.
C3_SequentialPaging ==
    /\ pagePending <= 1
    /\ pageRequests # <<>> => pageRequests[1] = NullCursor
    /\ \A i \in 2..Len(pageRequests) :
           pageRequests[i] = pageResponses[i - 1].endCursor

\* C4: against a source of k pages whose every response reports sufficient
\* quota, pagination has exited without error once k pages have been served.
C4_PaginationTerminates ==
    (/\ ~LowQuotaSeen
     /\ failure # "pageError"
     /\ Len(pageResponses) >= Len(pageLens))
        => (pc # "paging" /\ failure = "none")

\* C5: with sufficient quota, the cursors collected so far are the leading
\* cursors of page 1, page 2, ... in that order, and the sequence handed to
\* the batch stage is the concatenation of all k pages' cursors, unchanged.
C5_CursorConcatenation ==
    ~LowQuotaSeen =>
        /\ pc = "paging" =>
               /\ Len(repoCursors) <= Len(AllCursors)
               /\ repoCursors = SubSeq(AllCursors, 1, Len(repoCursors))
        /\ BatchIssued => repoCursors = AllCursors

\* C6: a page reporting remaining < 10 is the last page requested, the run
\* fails on it and no batch request is ever issued; the run fails on quota
\* only if some page reported remaining < 10 (10 itself is sufficient).
C6_QuotaAbort ==
    /\ \A i \in DOMAIN pageResponses :
           pageResponses[i].remaining < MINIMUM_GITHUB_POINTS =>
               /\ i = Len(pageResponses)
               /\ Len(pageRequests) = i
               /\ pagePending = 0
               /\ pc = "failed"
               /\ failure = "quota"
               /\ ~BatchIssued
    /\ failure = "quota" => LowQuotaSeen

\* A first page reporting exactly the minimum was accepted, the next page
\* reported less and the run failed there.
C6_Witness ==
    /\ Len(pageResponses) = 2
    /\ pageResponses[1].remaining = MINIMUM_GITHUB_POINTS
    /\ pageResponses[2].remaining < MINIMUM_GITHUB_POINTS
    /\ failure = "quota"

SomeLookupRejected ==
    \E m \in Managers, n \in Names : lookupState[m][n] = "rejected"

\* C7: in a run in which pagination failed (quota or page request error) or
\* a registry lookup rejected, no document is written.
C7_NoOutputOnFailure ==
    (LowQuotaSeen \/ failure = "pageError" \/ SomeLookupRejected)
        => output = NoOutput

\* The npm names all resolved, then a PyPI lookup rejected and the run
\* failed.
C7_Witness ==
    /\ depMap["NPM"].state = "map"
    /\ \E n \in Names : lookupState["PYPI"][n] = "rejected"
    /\ pc = "failed"
    /\ ~output.written

Passed(m) ==
    IF m = "NPM" THEN pc \in {"pypi", "draining", "written"}
                      \/ failure = "pypi"
    ELSE pc \in {"draining", "written"}

\* C8: a resolver returns a map only when every per-name lookup fulfilled,
\* and then with an entry for exactly the names passed in; once main() is
\* past a resolver that was given names, its map was returned; if a lookup
\* rejected, no map is returned and the run has failed in that resolver.
C8_AllOrNothing ==
    \A m \in Managers :
        /\ depMap[m].state = "map" =>
               /\ \A n \in Range(packageDeps[m]) :
                      lookupState[m][n] = "fulfilled"
               /\ depMap[m].keys = Range(packageDeps[m])
        /\ (Passed(m) /\ packageDeps[m] # <<>>) => depMap[m].state = "map"
        /\ (\E n \in Names : lookupState[m][n] = "rejected") =>
               /\ depMap[m] = NoDepMap
               /\ pc = "failed"
               /\ failure = StageOf(m)

\* Both resolvers returned a map of more than one name.
C8_Witness ==
    /\ depMap["NPM"].state = "map"
    /\ Cardinality(depMap["NPM"].keys) = 3
    /\ depMap["PYPI"].state = "map"
    /\ Cardinality(depMap["PYPI"].keys) = 2

\* Package names declared under manager m in the responses received.
Declared(m) ==
    UNION { UNION { UNION { Range(f.deps) :
                f \in {g \in Range(RepoNode(i).files) :
                          \E ext \in packageManagers[m] :
                              EndsWith(g.filename, ext)} } :
            i \in {j \in Range(r.edges) : RepoNode(j).hasRef} } :
        r \in Range(successfullResponses) }

Started(m) ==
    IF m = "NPM" THEN pc \in {"npm", "pypi", "draining", "written"}
                      \/ failure \in {"npm", "pypi"}
    ELSE pc \in {"pypi", "draining", "written"} \/ failure = "pypi"

HasToken(m, n) ==
    lookupState[m][n] \in {"granted", "inflight", "fulfilled", "rejected"}

C10_TokenAccounting ==
    \A m \in Managers :
        /\ 0 <= tokensAvailable[m]
        /\ tokensAvailable[m] <= RateLimiterInit[m].capacity
        /\ tokensGranted[m] <= RateLimiterInit[m].tokens + tokensAdded[m]
        /\ tokensAvailable[m] =
               RateLimiterInit[m].tokens + tokensAdded[m] - tokensGranted[m]

\* Two callers contend for the single PyPI token: one was granted, the
\* bucket is empty and the other still waits.
C10_Witness ==
    /\ Len(pendingWaiters["PYPI"]) = 1
    /\ tokensGranted["PYPI"] = 1
    /\ tokensAvailable["PYPI"] = 0


\* Pagination has completed: the loop was left without a throw.
PaginationComplete ==
    pc \notin {"start", "paging"} /\ failure \notin {"quota", "pageError"}

\* The repositories whose entries a sequence of responses contributes.
ReposOf(entries) == {entries[k].repo : k \in DOMAIN entries}

\* C16: extraction starts only when every batch request has settled; the
\* requests are all issued in one step, none settled yet; a rejection leaves
\* the run in the batch stage, changes no sibling and takes no response
\* away, and a sibling that fulfils afterwards still adds its response; a run
\* fails only through pagination or resolution, and a written document is
\* built from the fulfilled responses only.
C16_JoinAllSettled ==
    /\ [](Scraped => AllSettled)
    /\ [](Len(successfullResponses) = Cardinality(Groups("fulfilled")))
    /\ [](failure # "none" =>
             (LowQuotaSeen \/ failure = "pageError" \/ SomeLookupRejected))
    /\ [](output.written =>
             /\ ReposOf(output.npm) \cup ReposOf(output.PyPI) \subseteq
                    UNION {Range(DependencyResponse(numOfPages,
                                                    batchAnchors[g]).edges) :
                               g \in Groups("fulfilled")}
             /\ output.npm = generateDependencyTree(
                    BuildAllDeps(successfullResponses)["NPM"], depMap["NPM"])
             /\ output.PyPI = generateDependencyTree(
                    BuildAllDeps(successfullResponses)["PYPI"],
                    depMap["PYPI"]))
    /\ [][/\ (~BatchIssued /\ BatchIssued') =>
                 /\ Len(batchState') = Len(batchAnchors')
                 /\ \A g \in DOMAIN batchState' : batchState'[g] = "pending"
          /\ \A g \in DOMAIN batchState :
                 (batchState[g] = "pending" /\ batchState'[g] = "rejected") =>
                     /\ pc' = "batching"
                     /\ failure' = "none"
                     /\ successfullResponses' = successfullResponses
                     /\ \A h \in DOMAIN batchState :
                            h # g => batchState'[h] = batchState[h]
          /\ \A g \in DOMAIN batchState :
                 (batchState[g] = "pending" /\ batchState'[g] = "fulfilled") =>
                     Len(successfullResponses') =
                         Len(successfullResponses) + 1]_vars

\* The first of three requests rejected, its siblings fulfilled afterwards,
\* and the document was written from their two responses.
C16_Witness ==
    /\ batchState = <<"rejected", "fulfilled", "fulfilled">>
    /\ Len(successfullResponses) = 2
    /\ output.written
    /\ output.PyPI # <<>>

\* C19: whenever pagination completes, at least one batch request is issued,
\* also when no cursor was retrieved; the first request carries the null
\* anchor whatever the first retrieved cursor was, and request g > 1 carries
\* the retrieved cursor at index 3 (g - 1), counted from 0.
C19_NullFirstAnchor ==
    PaginationComplete =>
        /\ Len(batchAnchors) >= 1
        /\ batchAnchors[1] = NullCursor
        /\ \A g \in 2..Len(batchAnchors) :
               batchAnchors[g] = Retrieved[numOfPages * (g - 1) + 1]
        /\ Len(batchAnchors) =
               IF Retrieved = <<>> THEN 1
               ELSE CeilDiv(Len(Retrieved), numOfPages)

\* No cursor was retrieved and one request with the null anchor was issued.
C19_Witness ==
    /\ PaginationComplete
    /\ Retrieved = <<>>
    /\ batchAnchors = <<NullCursor>>
    /\ batchState = <<"pending">>

\* C20: when the document is written every batch request has settled, every
\* lookup issued has fulfilled, and no caller waits in waitForTokens on
\* either bucket.
C20_QuiescentAtWrite ==
    output.written =>
        /\ AllSettled
        /\ \A m \in Managers :
               /\ pendingWaiters[m] = <<>>
               /\ \A n \in Names :
                      /\ lookupState[m][n] \in {"idle", "fulfilled"}
                      /\ lookups[m][n] = 1 => lookupState[m][n] = "fulfilled"

\* A document written after lookups on both registries were granted tokens
\* and fulfilled.
C20_Witness ==
    /\ output.written
    /\ tokensGranted["NPM"] >= 2
    /\ tokensGranted["PYPI"] = 2
    /\ refills["PYPI"] = 1


\* C11: the callers of one bucket are granted in the order they called
\* waitForTokens (the order of the names given to the resolver), and every
\* caller that waits is eventually granted.
C11_FirstComeFirstServed ==
    /\ [](\A m \in Managers : \A j, k \in DOMAIN packageDeps[m] :
             (j < k /\ HasToken(m, packageDeps[m][k])) =>
                 HasToken(m, packageDeps[m][j]))
    /\ \A m \in Managers, n \in Names :
           (lookupState[m][n] = "waiting") ~> HasToken(m, n)

\* Two PyPI callers and a single token: the first caller was granted, the
\* second still waits for the refill.
C11_Witness ==
    /\ packageDeps["PYPI"] = <<"x", "y">>
    /\ HasToken("PYPI", "x")
    /\ pendingWaiters["PYPI"] = <<"y">>
    /\ tokensAvailable["PYPI"] = 0
    /\ refills["PYPI"] = 0


\* Every number of the version is a number (none is NaN).
IsNumeric(v) ==
    v.first # NaN /\ \A i \in DOMAIN v.rest : v.rest[i] # NaN

\* C13: for a non-prerelease version a and a prerelease version b, whatever
\* their numbers, greaterThan(a, b) is true and greaterThan(b, a) is false.
C13_ReleaseOutranksPrerelease ==
    (cmpResult.called /\ ~cmpA.isPrerelease /\ cmpB.isPrerelease)
        => (cmpResult.ab /\ ~cmpResult.ba)

\* A release with the smallest numbers was compared with a prerelease with
\* the largest numbers and outranked it.
C13_Witness ==
    /\ cmpResult.called
    /\ ~cmpA.isPrerelease /\ cmpA.first = 0 /\ cmpA.rest = <<>>
    /\ cmpB.isPrerelease /\ cmpB.first = 2 /\ cmpB.rest = <<2, 2>>
    /\ cmpResult.ab /\ ~cmpResult.ba


\* The order the comparison rules state for two versions with the same
\* prerelease flag: greater major; or equal majors and the first differing
\* pair of components greater, or the other's components a proper prefix.
StatedGreater(a, b) ==
    LET differ == {i \in 1..Min(Len(a.rest), Len(b.rest)) :
                      a.rest[i] # b.rest[i]}
    IN  \/ a.first > b.first
        \/ /\ a.first = b.first
           /\ IF differ # {}
              THEN LET i == CHOOSE k \in differ : \A j \in differ : k <= j
                   IN  a.rest[i] > b.rest[i]
              ELSE Len(a.rest) > Len(b.rest)

Incomparable(a, b) ==
    /\ ~greaterThanPythonPackageVersion(a, b)
    /\ ~greaterThanPythonPackageVersion(b, a)

NumericVersions == {v \in ParsedVersions : IsNumeric(v)}

\* C12: greaterThan is a strict weak ordering over parsed versions: it is
\* irreflexive, asymmetric, transitive, and incomparability is transitive.
C12_StrictWeakOrdering ==
    (cmpResult.called /\ IsNumeric(cmpA) /\ IsNumeric(cmpB)) =>
        /\ ~cmpResult.aa
        /\ ~(cmpResult.ab /\ cmpResult.ba)
        /\ \A c \in NumericVersions :
               /\ (cmpResult.ab /\ greaterThanPythonPackageVersion(cmpB, c))
                      => greaterThanPythonPackageVersion(cmpA, c)
               /\ (Incomparable(cmpA, cmpB) /\ Incomparable(cmpB, c))
                      => Incomparable(cmpA, c)

\* C17: for two versions with the same prerelease flag, greaterThan(a, b) is
\* true exactly when a's major is greater, or the majors are equal and the
\* first differing pair of components has a's greater or b's components are
\* a proper prefix of a's; it is false whenever a's major is smaller.
C17_SameFlagOrder ==
    (/\ cmpResult.called
     /\ cmpA.isPrerelease = cmpB.isPrerelease
     /\ IsNumeric(cmpA) /\ IsNumeric(cmpB)) =>
        /\ cmpResult.ab <=> StatedGreater(cmpA, cmpB)
        /\ cmpResult.ba <=> StatedGreater(cmpB, cmpA)


HasEpoch(s) == SplitsInTwo(s, <<"!">>)

\* R of a string E!R.
Remainder(s) == DropFirst(s, IndexOf(s, <<"!">>))

\* C18: parsing E!R gives epoch E, and the major, components and prerelease
\* flag of parsing R alone.
C18_EpochRemainder ==
    (parsedFrom # <<>> /\ selState # "threw" /\ HasEpoch(parsedFrom)) =>
        LET alone == parsePythonPackageVersion(Remainder(parsedFrom))
        IN  /\ parsedLast.epoch = parseInt(BeforeFirst(parsedFrom, <<"!">>))
            /\ parsedLast.first = alone.first
            /\ parsedLast.rest = alone.rest
            /\ parsedLast.isPrerelease = alone.isPrerelease

\* The release fails to parse: its major or a component is not a number.
FailsToParse(r) == ~IsNumeric(parsePythonPackageVersion(r))

NoEpochs == \A i \in DOMAIN releases : ~HasEpoch(releases[i])

\* C15: a release that fails to parse is never returned as the selected
\* version; when there is no release or every release fails to parse, the
\* selection returns "0"; no error is raised.
C15_UnparseableExcluded ==
    NoEpochs =>
        /\ selState # "threw"
        /\ selState = "returned" =>
               /\ \A i \in DOMAIN releases :
                      FailsToParse(releases[i]) => bestVersion # releases[i]
               /\ (\A i \in DOMAIN releases : FailsToParse(releases[i]))
                      => bestVersion = SentinelString

\* The highest of a set of release strings with the same prerelease flag.
Highest(rs) ==
    CHOOSE r \in rs :
        \A o \in rs \ {r} :
            StatedGreater(parsePythonPackageVersion(r),
                          parsePythonPackageVersion(o))

\* The selection the rules state for the releases of one package.
StatedBest(rs) ==
    LET stable == {r \in rs : ~parsePythonPackageVersion(r).isPrerelease}
    IN  IF stable # {} THEN Highest(stable)
        ELSE IF rs # {} THEN Highest(rs)
        ELSE SentinelString

WellFormed ==
    \A i \in DOMAIN releases :
        ~HasEpoch(releases[i]) /\ ~FailsToParse(releases[i])

\* C14: whatever the set of releases and the order they are enumerated in,
\* the selection returns the highest release that is not a prerelease if
\* there is one, otherwise the highest prerelease, otherwise "0".
C14_BestVersion ==
    (selState = "returned" /\ WellFormed)
        => bestVersion = StatedBest(Range(releases))

====
